---- MODULE Spec2Model ----
(***************************************************************************)
(* CINESONICS backend (server.js): the in-memory rate-limiting store, the  *)
(* one-time cover tokens, and the three routes /api/status, /api/generate  *)
(* and /api/cover/:token, with the periodic cleanup of expired tokens.     *)
(*                                                                         *)
(* A route handler runs to completion except at an await: /api/generate    *)
(* is split at the upstream text call (GenerateStart, GenerateDone) and    *)
(* /api/cover/:token at the image fetch (CoverStart, CoverDone).  Any      *)
(* number of requests may be suspended at an await at the same time.       *)
(*                                                                         *)
(* Time is counted in ticks of TickMs milliseconds: Date.now() is          *)
(* now * TickMs.  The code only adds the TTL to the clock and compares     *)
(* clock values, so the scaling keeps every ordering of instants.          *)
(***************************************************************************)
EXTENDS Integers, Sequences, FiniteSets, Bags, TLC

\* ------------------------------------------------------------------ bounds
NumClients == 2      \* distinct client identifiers (ip strings)
NumVisitors == 1     \* Spec: clients that send status and generate requests
MaxTicks == 2        \* Spec: ticks of clock time after the start
MaxUpstream == 1     \* Spec: generate requests admitted to the upstream call, in all
MaxCover == 2        \* Spec: cover requests suspended at the image fetch at once
LedgerTicks == 1     \* SpecLedger: ticks of clock time after the start
MaxLedger == 2       \* SpecLedger: generate requests admitted to the upstream call, in all
MaxBurst == 5        \* SpecBurst: generate requests suspended at the upstream call at once
MaxQueue == 2        \* SpecBusy: generate requests suspended at the upstream call at once
MaxStraddle == 3     \* SpecMidnight: generate requests admitted to the upstream call, in all
LiveTicks == 1       \* SpecLive: ticks of clock time after the start, the vault empty
LiveTokens == 1      \* SpecLive: generate requests admitted to the upstream call, in all
LiveCover == 1       \* SpecLive: cover requests suspended at the image fetch at once
MaxHeaderLen == 2    \* SpecIdentity: characters in an x-forwarded-for header
MaxSeen == 1         \* SpecIdentity: distinct client identifiers served

\* --------------------------------------------------------------- constants
DAILY_GLOBAL_LIMIT == 11
DAILY_USER_LIMIT == 2
VibeMax == 600
TickMs == 5 * 60 * 1000
TTL == (5 * 60 * 1000) \div TickMs
DayLen == (24 * 60 * 60 * 1000) \div TickMs

Clients == 1..NumClients
\* The clients that send requests in Spec; the vault is the same whoever asks.
Visitors == 1..NumVisitors
\* The process starts one tick before UTC midnight.
StartTime == DayLen - 1

\* req.body.vibe: not a string, or a string of `lead` white-space characters
\* followed by `text` characters of content (no trailing white space).
NotAString == [str |-> FALSE, lead |-> 0, text |-> 0]
Vibes ==
    {NotAString,
     [str |-> TRUE, lead |-> 2, text |-> 0],
     [str |-> TRUE, lead |-> 0, text |-> VibeMax],
     [str |-> TRUE, lead |-> 2, text |-> VibeMax],
     [str |-> TRUE, lead |-> 0, text |-> VibeMax + 1]}

\* process.env.POLLINATIONS_API_KEY: unset, or the key.
NoKey == "unset"
TheKey == "key"

\* What the upstream text call can come back with: fetch throws; a status
\* that is not ok (401, 402, another); no choices[0].message.content; content
\* JSON.parse fails on; a payload without a tracks array; an empty tracks
\* array; a payload with tracks.
Outcomes ==
    {"throws", "http401", "http402", "http5xx", "nocontent", "unparseable",
     "notracks", "emptytracks", "ok"}

\* What the image fetch can come back with: fetch or arrayBuffer throws; a
\* status that is not ok; the image.
ImageOutcomes == {"throws", "notok", "ok"}

VARIABLES
    now,            \* the clock, in ticks
    apiKey,         \* process.env.POLLINATIONS_API_KEY
    store,          \* store: globalCount, resetDate, users (ip -> record ref)
    records,        \* the { count, date } objects store.users and requests hold
    coverTokens,    \* coverTokens: token -> [url, expiresAt]
    nextToken,      \* crypto.randomUUID(): tokens are fresh, numbered as issued
    pendingGen,     \* bag of generate requests suspended at the upstream call
    pendingCover,   \* bag of cover requests suspended at the image fetch
    resp,           \* the response the last step sent (NoResp: none)
    issued,         \* history: token -> expiresAt, for every token issued so far
    committed,      \* history: bag of <<ip, date>>, one per generation charged
    tried,          \* history: the issued tokens some cover request has looked up
    request,        \* SpecIdentity: the request whose client is being resolved
    resolved,       \* SpecIdentity: what clientIp(request) returned
    unswept         \* history: the vault of the run in which the sweep never fires

vars ==
    <<now, apiKey, store, records, coverTokens, nextToken, pendingGen,
      pendingCover, resp, issued, committed, tried, request, resolved, unswept>>

\* ------------------------------------------------------------------ helpers
EmptyMap == [x \in {} |-> 0]

Max0(n) == IF n < 0 THEN 0 ELSE n

todayUTC == now \div DayLen

\* No image URL: the value of a response field that could hold one.
NoLocator == [prompt |-> 0, seed |-> 0, key |-> NoKey]

\* A response: the route (op), the client it went to, the HTTP status and the
\* body's fields (type, coverToken, remaining.user/userRemaining,
\* remaining.global/globalRemaining); len echoes the length of the trimmed vibe
\* of a generate request answered before the upstream call; locator is the
\* image URL the body carries, NoLocator when it carries none.
NoResp ==
    [op |-> "none", ip |-> 0, status |-> 0, type |-> "none", token |-> 0,
     user |-> 0, global |-> 0, len |-> 0, locator |-> NoLocator]

Json(op, ip, status, type) ==
    [op |-> op, ip |-> ip, status |-> status, type |-> type, token |-> 0,
     user |-> 0, global |-> 0, len |-> 0, locator |-> NoLocator]

\* --------------------------------------------------------------- clientIp
\* A string is a sequence of characters; a value that may be undefined is a
\* record [present, value], with the value << >> when it is undefined.
Undefined == [present |-> FALSE, value |-> << >>]

Str(s) == [present |-> TRUE, value |-> s]

\* The characters of a header: a white-space character, the comma, another.
HeaderChars == {" ", ",", "a"}

RECURSIVE StringsUpTo(_)
StringsUpTo(n) ==
    IF n = 0 THEN {<< >>}
    ELSE LET shorter == StringsUpTo(n - 1)
         IN  shorter \cup {Append(s, c) : s \in shorter, c \in HeaderChars}

\* req.socket: undefined, or an object with its remoteAddress.
NoSocket == [present |-> FALSE, remoteAddress |-> Undefined]

Socket(address) == [present |-> TRUE, remoteAddress |-> address]

\* req.headers['x-forwarded-for'], req.ip and req.socket.
Requests ==
    [forwarded : {Undefined} \cup {Str(s) : s \in StringsUpTo(MaxHeaderLen)},
     ip : {Undefined, Str(<< >>), Str(<<"p">>)},
     socket : {NoSocket, Socket(Undefined), Socket(Str(<< >>)), Socket(Str(<<"q">>))}]

NoRequest == [forwarded |-> Undefined, ip |-> Undefined, socket |-> NoSocket]

Unresolved == [done |-> FALSE, ip |-> << >>]

unknown == <<"u", "n", "k", "n", "o", "w", "n">>

\* A JavaScript value is truthy unless it is undefined or the empty string.
truthy(v) == v.present /\ v.value # << >>

\* s.split(',')[0]
RECURSIVE beforeComma(_)
beforeComma(s) ==
    IF s = << >> \/ Head(s) = "," THEN << >>
    ELSE <<Head(s)>> \o beforeComma(Tail(s))

RECURSIVE trimStart(_)
trimStart(s) == IF s # << >> /\ Head(s) = " " THEN trimStart(Tail(s)) ELSE s

RECURSIVE trimEnd(_)
trimEnd(s) ==
    IF s # << >> /\ s[Len(s)] = " " THEN trimEnd(SubSeq(s, 1, Len(s) - 1)) ELSE s

\* s.trim()
trim(s) == trimEnd(trimStart(s))

\* Mutant: the header is used whenever it is defined, the empty one included.
headerUsed_whenPresent(req) == req.forwarded.present

\* if (forwarded)
headerUsed(req) == truthy(req.forwarded)

\* req.socket?.remoteAddress
remoteAddress(req) == IF req.socket.present THEN req.socket.remoteAddress ELSE Undefined

clientIp(req) ==
    IF headerUsed(req) THEN trim(beforeComma(req.forwarded.value))
    ELSE IF truthy(req.ip) THEN req.ip.value
    ELSE IF truthy(remoteAddress(req)) THEN remoteAddress(req).value
    ELSE unknown

\* ------------------------------------------------------------- the ledger
\* A ledger value L pairs the store with the record objects: [store, records].
\* A record object is named by the ip and the day it was created for.
Ledger == [store |-> store, records |-> records]

resetIfNewDay(L) ==
    IF L.store.resetDate # todayUTC
    THEN [L EXCEPT !.store =
            [globalCount |-> 0, resetDate |-> todayUTC, users |-> EmptyMap]]
    ELSE L

\* The ledger after userRecord(ip), and the record it returned.
userRecord(L, ip) ==
    LET has == ip \in DOMAIN L.store.users
        fresh == <<ip, todayUTC>>
    IN  IF ~has \/ L.records[L.store.users[ip]].date # todayUTC
        THEN [ledger |->
                [store |-> [L.store EXCEPT !.users = (ip :> fresh) @@ @],
                 records |-> (fresh :> [count |-> 0, date |-> todayUTC]) @@ L.records],
              rec |-> fresh]
        ELSE [ledger |-> L, rec |-> L.store.users[ip]]

\* store.globalCount++; rec.count++
incrementCounters(L, rec) ==
    [store |-> [L.store EXCEPT !.globalCount = @ + 1],
     records |-> [L.records EXCEPT ![rec].count = @ + 1]]

\* Record objects nothing refers to any more are garbage.
Reachable(L, pending) ==
    {L.store.users[i] : i \in DOMAIN L.store.users} \cup {r.rec : r \in DOMAIN pending}

Collect(L, pending) ==
    [r \in (DOMAIN L.records) \cap Reachable(L, pending) |-> L.records[r]]

\* ----------------------------------------------------------------- status
\* app.get('/api/status')
Status(ip) ==
    LET L1 == resetIfNewDay(Ledger)
        ur == userRecord(L1, ip)
        L2 == ur.ledger
    IN  /\ store' = L2.store
        /\ records' = Collect(L2, pendingGen)
        /\ resp' = [Json("status", ip, 200, "none") EXCEPT
                      !.global = Max0(DAILY_GLOBAL_LIMIT - L2.store.globalCount),
                      !.user = Max0(DAILY_USER_LIMIT - L2.records[ur.rec].count)]
        /\ UNCHANGED <<now, apiKey, coverTokens, nextToken, pendingGen,
                       pendingCover, issued, committed, tried, request, resolved, unswept>>

\* --------------------------------------------------------------- generate
\* typeof req.body.vibe === 'string' ? req.body.vibe.trim() : ''   (its length)
trimmedLength(vibe) == IF vibe.str THEN vibe.text ELSE 0

\* Mutant: only the empty vibe is rejected.
vibeRejected_emptyOnly(vibe) == trimmedLength(vibe) = 0

\* !vibe || vibe.length > 600
vibeRejected(vibe) == trimmedLength(vibe) = 0 \/ trimmedLength(vibe) > VibeMax

globalLimitReached(L) == L.store.globalCount >= DAILY_GLOBAL_LIMIT

userLimitReached(L, rec) == L.records[rec].count >= DAILY_USER_LIMIT

\* Mutant: the limit responses carry no type either.
earlyResponse_untypedLimits(L, rec, ip, vibe) ==
    LET json(status, type) ==
            [Json("generate", ip, status, type) EXCEPT !.len = trimmedLength(vibe)]
    IN  IF globalLimitReached(L) THEN json(429, "none")
        ELSE IF userLimitReached(L, rec) THEN json(429, "none")
        ELSE IF vibeRejected(vibe) THEN json(400, "none")
        ELSE IF apiKey = NoKey THEN json(500, "none")
        ELSE NoResp

\* Mutant: the caller's own limit is checked before the global limit.
earlyResponse_userLimitFirst(L, rec, ip, vibe) ==
    LET json(status, type) ==
            [Json("generate", ip, status, type) EXCEPT !.len = trimmedLength(vibe)]
    IN  IF userLimitReached(L, rec) THEN json(429, "user_limit")
        ELSE IF globalLimitReached(L) THEN json(429, "global_limit")
        ELSE IF vibeRejected(vibe) THEN json(400, "none")
        ELSE IF apiKey = NoKey THEN json(500, "none")
        ELSE NoResp

\* Mutant: the vibe is validated before the limits are checked.
earlyResponse_validatesFirst(L, rec, ip, vibe) ==
    LET json(status, type) ==
            [Json("generate", ip, status, type) EXCEPT !.len = trimmedLength(vibe)]
    IN  IF vibeRejected(vibe) THEN json(400, "none")
        ELSE IF globalLimitReached(L) THEN json(429, "global_limit")
        ELSE IF userLimitReached(L, rec) THEN json(429, "user_limit")
        ELSE IF apiKey = NoKey THEN json(500, "none")
        ELSE NoResp

\* The response /api/generate sends before the upstream call; NoResp when the
\* request goes on to the call.
earlyResponse(L, rec, ip, vibe) ==
    LET json(status, type) ==
            [Json("generate", ip, status, type) EXCEPT !.len = trimmedLength(vibe)]
    IN  IF globalLimitReached(L) THEN json(429, "global_limit")
        ELSE IF userLimitReached(L, rec) THEN json(429, "user_limit")
        ELSE IF vibeRejected(vibe) THEN json(400, "none")
        ELSE IF apiKey = NoKey THEN json(500, "none")
        ELSE NoResp

\* app.post('/api/generate'), up to the await of the upstream text call.
\* `room` bounds the requests that reach the call.
GenerateStart(ip, vibe, room) ==
    LET L1 == resetIfNewDay(Ledger)
        ur == userRecord(L1, ip)
        L2 == ur.ledger
        early == earlyResponse(L2, ur.rec, ip, vibe)
        req == [ip |-> ip, rec |-> ur.rec, vibe |-> trimmedLength(vibe)]
    IN  /\ early = NoResp => room
        /\ pendingGen' = IF early = NoResp THEN pendingGen (+) SetToBag({req})
                         ELSE pendingGen
        /\ store' = L2.store
        /\ records' = Collect(L2, pendingGen')
        /\ resp' = early
        /\ UNCHANGED <<now, apiKey, coverTokens, nextToken, pendingCover, issued, committed,
                       tried, request, resolved, unswept>>

\* Whether the handler reaches the token and the counters for this outcome
\* of the upstream call: none of the throws on the way is taken.
generationSucceeded(outcome) == outcome = "ok"

\* Mutant: the counters are incremented before the tracks check.
ledgerAfterUpstream_beforeTracksCheck(L, rec, outcome) ==
    IF outcome \in {"ok", "notracks", "emptytracks"} THEN incrementCounters(L, rec) ELSE L

\* The ledger after the handler has dealt with the upstream outcome.
ledgerAfterUpstream(L, rec, outcome) ==
    IF generationSucceeded(outcome) THEN incrementCounters(L, rec) ELSE L

\* The vault after the handler has dealt with the upstream outcome.
imageUrl(vibe) == [prompt |-> vibe, seed |-> now, key |-> apiKey]

\* Mutant: the token is issued before the tracks check.
vaultAfterUpstream_beforeTracksCheck(vault, token, vibe, outcome) ==
    IF outcome \in {"ok", "notracks", "emptytracks"}
    THEN (token :> [url |-> imageUrl(vibe), expiresAt |-> now + TTL]) @@ vault
    ELSE vault

vaultAfterUpstream(vault, token, vibe, outcome) ==
    IF generationSucceeded(outcome)
    THEN (token :> [url |-> imageUrl(vibe), expiresAt |-> now + TTL]) @@ vault
    ELSE vault

\* Mutant: the success body hands the client the image URL itself.
bodyLocator_sendsUrl(url) == url

\* What the success body carries of the image URL: nothing, the client gets
\* coverToken: token.
bodyLocator(url) == NoLocator

\* app.post('/api/generate'), from the upstream call's return to the response.
GenerateDone(req, outcome) ==
    LET L2 == ledgerAfterUpstream(Ledger, req.rec, outcome)
        ok == generationSucceeded(outcome)
    IN  /\ BagIn(req, pendingGen)
        /\ pendingGen' = pendingGen (-) SetToBag({req})
        /\ coverTokens' = vaultAfterUpstream(coverTokens, nextToken, req.vibe, outcome)
        /\ unswept' = vaultAfterUpstream(unswept, nextToken, req.vibe, outcome)
        /\ nextToken' = IF ok THEN nextToken + 1 ELSE nextToken
        /\ issued' = IF ok THEN (nextToken :> (now + TTL)) @@ issued ELSE issued
        /\ committed' = IF ok THEN committed (+) SetToBag({<<req.ip, todayUTC>>})
                        ELSE committed
        /\ store' = L2.store
        /\ resp' = IF ok
                   THEN [Json("generate", req.ip, 200, "none") EXCEPT
                           !.token = nextToken,
                           !.locator = bodyLocator(imageUrl(req.vibe)),
                           !.user = Max0(DAILY_USER_LIMIT - L2.records[req.rec].count),
                           !.global = Max0(DAILY_GLOBAL_LIMIT - L2.store.globalCount)]
                   ELSE Json("generate", req.ip, 500, "none")
        /\ records' = Collect(L2, pendingGen')
        /\ UNCHANGED <<now, apiKey, pendingCover, tried, request, resolved>>

\* ------------------------------------------------------------------ cover
CoverJson(token, status) == [Json("cover", 0, status, "none") EXCEPT !.token = token]

\* Mutant: the entry counts as expired at the instant expiresAt already.
tokenExpired_atExpiresAt(entry) == now >= entry.expiresAt

\* Date.now() > entry.expiresAt
tokenExpired(entry) == now > entry.expiresAt

\* Mutant: deleting a token that is not in the vault puts an entry there.
delete_toggles(vault, token) ==
    IF token \in DOMAIN vault
    THEN [t \in DOMAIN vault \ {token} |-> vault[t]]
    ELSE (token :> [url |-> NoLocator, expiresAt |-> now]) @@ vault

\* coverTokens.delete(token)
delete(vault, token) == [t \in DOMAIN vault \ {token} |-> vault[t]]

\* The status /api/cover/:token answers with before the image fetch; 0 when
\* the request goes on to the fetch.
lookupStatus(vault, token) ==
    IF token \notin DOMAIN vault THEN 404
    ELSE IF tokenExpired(vault[token]) THEN 410
    ELSE 0

\* Mutant: the expired entry is left in the vault.
vaultAfterLookup_keepsExpired(vault, token) == vault

\* The vault after the lookup: an expired entry is deleted.
vaultAfterLookup(vault, token) ==
    IF token \in DOMAIN vault /\ tokenExpired(vault[token])
    THEN delete(vault, token)
    ELSE vault

\* app.get('/api/cover/:token'), up to the await of the image fetch.
\* `room` bounds the requests that reach the fetch.
CoverStart(token, room) ==
    LET status == lookupStatus(coverTokens, token)
    IN  /\ status = 0 => room
        /\ tried' = tried \cup ({token} \cap DOMAIN issued)
        /\ coverTokens' = vaultAfterLookup(coverTokens, token)
        /\ unswept' = vaultAfterLookup(unswept, token)
        /\ pendingCover' = IF status = 0 THEN pendingCover (+) SetToBag({token})
                           ELSE pendingCover
        /\ resp' = IF status = 0 THEN NoResp ELSE CoverJson(token, status)
        /\ UNCHANGED <<now, apiKey, store, records, nextToken, pendingGen, issued, committed,
                       request, resolved>>

\* Whether the handler reaches coverTokens.delete for this outcome of the fetch.
imageDelivered(outcome) == outcome = "ok"

vaultAfterFetch(vault, token, outcome) ==
    IF imageDelivered(outcome) THEN delete(vault, token) ELSE vault

\* app.get('/api/cover/:token'), from the fetch's return to the response.
CoverDone(token, outcome) ==
    /\ BagIn(token, pendingCover)
    /\ pendingCover' = pendingCover (-) SetToBag({token})
    /\ coverTokens' = vaultAfterFetch(coverTokens, token, outcome)
    /\ unswept' = vaultAfterFetch(unswept, token, outcome)
    /\ resp' = CoverJson(token, IF imageDelivered(outcome) THEN 200 ELSE 502)
    /\ UNCHANGED <<now, apiKey, store, records, nextToken, pendingGen, issued, committed,
                   tried, request, resolved>>

\* ------------------------------------------------------------------ sweep
\* Mutant: the sweep deletes nothing.
sweepable_never(entry) == FALSE

\* Mutant: the sweep deletes every entry, expired or not.
sweepable_always(entry) == TRUE

\* Mutant: the sweep deletes the entry at the instant expiresAt already.
sweepable_atExpiresAt(entry) == now >= entry.expiresAt

\* now > entry.expiresAt
sweepable(entry) == now > entry.expiresAt

swept(vault) == [t \in {u \in DOMAIN vault : ~sweepable(vault[u])} |-> vault[t]]

\* The setInterval callback.
Sweep ==
    /\ coverTokens' = swept(coverTokens)
    /\ resp' = NoResp
    /\ UNCHANGED <<now, apiKey, store, records, nextToken, pendingGen,
                   pendingCover, issued, committed, tried, request, resolved, unswept>>

\* ------------------------------------------------------------------ clock
\* The clock advances by a tick, up to the instant `last`.
Tick(last) ==
    /\ now < last
    /\ now' = now + 1
    /\ resp' = NoResp
    /\ UNCHANGED <<apiKey, store, records, coverTokens, nextToken, pendingGen,
                   pendingCover, issued, committed, tried, request, resolved, unswept>>

\* --------------------------------------------------------------- identity
\* A request arrives, once the one before it has been answered, and the
\* handler resolves its client: const ip = clientIp(req).
Receive(req) ==
    /\ resolved.done => resp.op = "status"
    /\ request' = req
    /\ resolved' = [done |-> TRUE, ip |-> clientIp(req)]
    /\ resp' = NoResp
    /\ UNCHANGED <<now, apiKey, store, records, coverTokens, nextToken, pendingGen,
                   pendingCover, issued, committed, tried, unswept>>

\* app.get('/api/status') goes on with the resolved client.  `room` bounds
\* the identifiers the store gets to hold.
Serve(room) ==
    /\ resolved.done
    /\ resp.op = "none"
    /\ resolved.ip \notin DOMAIN store.users => room
    /\ Status(resolved.ip)

\* ---------------------------------------------------------- specification
Init ==
    /\ now = StartTime
    /\ apiKey \in {NoKey, TheKey}
    /\ store = [globalCount |-> 0, resetDate |-> StartTime \div DayLen, users |-> EmptyMap]
    /\ records = EmptyMap
    /\ coverTokens = EmptyMap
    /\ nextToken = 1
    /\ pendingGen = EmptyBag
    /\ pendingCover = EmptyBag
    /\ resp = NoResp
    /\ issued = EmptyMap
    /\ committed = EmptyBag
    /\ tried = {}
    /\ request = NoRequest
    /\ resolved = Unresolved
    /\ unswept = EmptyMap

\* Tokens a client can present: the ones issued so far, and 0, never issued.
Presentable == 0..(nextToken - 1)

UpstreamRoom == (nextToken - 1) + BagCardinality(pendingGen) < MaxUpstream

CoverRoom == BagCardinality(pendingCover) < MaxCover

Next ==
    \/ \E ip \in Visitors : Status(ip)
    \/ \E ip \in Visitors, vibe \in Vibes : GenerateStart(ip, vibe, UpstreamRoom)
    \/ \E req \in DOMAIN pendingGen, outcome \in Outcomes : GenerateDone(req, outcome)
    \/ \E token \in Presentable : CoverStart(token, CoverRoom)
    \/ \E token \in DOMAIN pendingCover, outcome \in ImageOutcomes : CoverDone(token, outcome)
    \/ Sweep
    \/ Tick(StartTime + MaxTicks)

\* The server: every route, the sweep and the clock.  Covers may be asked for
\* by anyone; the ledger under several clients is SpecLedger and SpecBurst.
Spec == Init /\ [][Next]_vars

\* The ledger side: status and generate requests and the clock, which is all
\* that reads or writes the store; no client asks for a cover.  Every
\* behaviour of SpecLedger is a behaviour of the server.
LedgerRoom == (nextToken - 1) + BagCardinality(pendingGen) < MaxLedger

NextLedger ==
    \/ \E ip \in Clients : Status(ip)
    \/ \E ip \in Clients, vibe \in Vibes : GenerateStart(ip, vibe, LedgerRoom)
    \/ \E req \in DOMAIN pendingGen, outcome \in Outcomes : GenerateDone(req, outcome)
    \/ Tick(StartTime + LedgerTicks)

SpecLedger == Init /\ [][NextLedger]_vars

\* A burst: status and generate requests that arrive within one tick, before
\* any client asks for a cover, with no bound on the tokens issued.  Every
\* behaviour of SpecBurst is a behaviour of the server.
BurstRoom == BagCardinality(pendingGen) < MaxBurst

NextBurst ==
    \/ \E ip \in Clients : Status(ip)
    \/ \E ip \in Clients, vibe \in Vibes : GenerateStart(ip, vibe, BurstRoom)
    \/ \E req \in DOMAIN pendingGen, outcome \in Outcomes : GenerateDone(req, outcome)

SpecBurst == Init /\ [][NextBurst]_vars

\* A busy day: the server after `served` other clients, each seen for the
\* first time today, have each completed one generation and fetched their
\* cover, which leaves globalCount = served, one record of count 1 per such
\* client and an empty vault.  Those clients send nothing more; the clients
\* of Clients then send status and generate requests within the tick.  The
\* key can only be unset when nobody has generated.
Strangers(served) == (NumClients + 1)..(NumClients + served)

InitBusy ==
    \E served \in 0..DAILY_GLOBAL_LIMIT :
        /\ now = StartTime
        /\ apiKey \in (IF served = 0 THEN {NoKey, TheKey} ELSE {TheKey})
        /\ store = [globalCount |-> served, resetDate |-> StartTime \div DayLen,
                    users |-> [ip \in Strangers(served) |-> <<ip, StartTime \div DayLen>>]]
        /\ records = [r \in {<<ip, StartTime \div DayLen>> : ip \in Strangers(served)} |->
                          [count |-> 1, date |-> StartTime \div DayLen]]
        /\ coverTokens = EmptyMap
        /\ nextToken = served + 1
        /\ pendingGen = EmptyBag
        /\ pendingCover = EmptyBag
        /\ resp = NoResp
        /\ issued = [t \in 1..served |-> StartTime + TTL]
        /\ committed = SetToBag({<<ip, StartTime \div DayLen>> : ip \in Strangers(served)})
        /\ tried = 1..served
        /\ request = NoRequest
        /\ resolved = Unresolved
        /\ unswept = EmptyMap

QueueRoom == BagCardinality(pendingGen) < MaxQueue

NextBusy ==
    \/ \E ip \in Clients : Status(ip)
    \/ \E ip \in Clients, vibe \in Vibes : GenerateStart(ip, vibe, QueueRoom)
    \/ \E req \in DOMAIN pendingGen, outcome \in Outcomes : GenerateDone(req, outcome)

SpecBusy == InitBusy /\ [][NextBusy]_vars

\* Around midnight: the status and generate requests of the visitors while the
\* clock passes UTC midnight, so that a request can wait on the upstream call
\* across the change of date.  Every behaviour of SpecMidnight is a behaviour
\* of the server.
StraddleRoom == (nextToken - 1) + BagCardinality(pendingGen) < MaxStraddle

NextMidnight ==
    \/ \E ip \in Visitors : Status(ip)
    \/ \E ip \in Visitors, vibe \in Vibes : GenerateStart(ip, vibe, StraddleRoom)
    \/ \E req \in DOMAIN pendingGen, outcome \in Outcomes : GenerateDone(req, outcome)
    \/ Tick(StartTime + LedgerTicks)

SpecMidnight == Init /\ [][NextMidnight]_vars

\* The vault over time: generate and cover requests and the sweep, with the
\* clock running on for as long as the vault holds an entry that has not
\* expired.  Time advances, the periodic sweep keeps firing and every image
\* fetch that was started returns or fails.
\* The vault is the same whoever generates: one client does.
Issuer == CHOOSE ip \in Clients : TRUE

LiveRoom == (nextToken - 1) + BagCardinality(pendingGen) < LiveTokens

LiveCoverRoom == BagCardinality(pendingCover) < LiveCover

LiveClockEnd ==
    IF \E t \in DOMAIN coverTokens : now <= coverTokens[t].expiresAt
    THEN now + 1
    ELSE StartTime + LiveTicks

FetchReturns == \E token \in DOMAIN pendingCover, outcome \in ImageOutcomes : CoverDone(token, outcome)

NextLive ==
    \/ \E vibe \in Vibes : GenerateStart(Issuer, vibe, LiveRoom)
    \/ \E req \in DOMAIN pendingGen, outcome \in Outcomes : GenerateDone(req, outcome)
    \/ \E token \in Presentable : CoverStart(token, LiveCoverRoom)
    \/ FetchReturns
    \/ Sweep
    \/ Tick(LiveClockEnd)

SpecLive ==
    /\ Init /\ [][NextLive]_vars
    /\ WF_vars(Tick(LiveClockEnd))
    /\ WF_vars(Sweep)
    /\ WF_vars(FetchReturns)

\* Who is asking: status requests with every combination of forwarded-for
\* header and peer address; each is resolved by clientIp and then served.
SeenRoom == Cardinality(DOMAIN store.users) < MaxSeen

NextIdentity ==
    \/ \E req \in Requests : Receive(req)
    \/ Serve(SeenRoom)

SpecIdentity == Init /\ [][NextIdentity]_vars

\* ------------------------------------------------------------------ claims
\* The counts as the data model reads them: a ledger whose resetDate is not
\* today counts as reset, and a client without a record of today counts 0.
liveGlobal == IF store.resetDate = todayUTC THEN store.globalCount ELSE 0

liveCount(ip) ==
    IF store.resetDate = todayUTC /\ ip \in DOMAIN store.users
       /\ records[store.users[ip]].date = todayUTC
    THEN records[store.users[ip]].count
    ELSE 0

\* C1: in every reachable state, whatever the interleaving of generate
\* requests (each commit preceded by its own passed limit check), globalCount
\* never exceeds DAILY_GLOBAL_LIMIT (11) within one UTC day.
C1_GlobalCountWithinLimit == liveGlobal <= DAILY_GLOBAL_LIMIT

\* C2: for every client and every UTC day, the generate requests of that
\* client that ended in success (each one incremented the client's record of
\* the day) never number more than DAILY_USER_LIMIT (2).
C2_UserCountWithinLimit == \A ip \in Clients : liveCount(ip) <= DAILY_USER_LIMIT

\* The steps, told apart by what they leave behind.
GenerateError == resp'.op = "generate" /\ resp'.status # 200

GenerateSuccess == resp'.op = "generate" /\ resp'.status = 200

UpstreamStarted == BagCardinality(pendingGen') > BagCardinality(pendingGen)

UpstreamReturned == BagCardinality(pendingGen') < BagCardinality(pendingGen)

QuotaUnchanged ==
    /\ liveGlobal' = liveGlobal
    /\ \A ip \in Clients : liveCount(ip)' = liveCount(ip)

\* C3: a generate request that ends in an error response (limit denial,
\* validation failure, missing key, any failure of the upstream call or of its
\* payload) leaves the global count and every client's count as they were and
\* creates no vault entry; after the upstream call it leaves the store and
\* every record untouched; and a count only ever grows in a step that sends
\* the success response.
C3_ErrorsConsumeNoQuota ==
    [][/\ GenerateError =>
            /\ QuotaUnchanged
            /\ coverTokens' = coverTokens
            /\ nextToken' = nextToken
       /\ (GenerateError /\ UpstreamReturned) =>
            /\ store' = store
            /\ \A r \in DOMAIN records' : records'[r] = records[r]
       /\ (liveGlobal' > liveGlobal \/ \E ip \in Clients : liveCount(ip)' > liveCount(ip))
            => GenerateSuccess]_vars

\* C3 witness: the upstream call of a request failed while quota was in use.
C3_Witness ==
    /\ resp.op = "generate" /\ resp.status = 500
    /\ apiKey = TheKey
    /\ liveGlobal = 1 /\ liveCount(resp.ip) = 1

StatusSent == resp'.op = "status"

\* A generate request ran its checks: it was answered before the upstream
\* call, or it went on to the call.
GenerateChecked == (resp'.op = "generate" /\ ~UpstreamReturned) \/ UpstreamStarted

\* A cover request looked token t up: it was answered 404 or 410, or it went
\* on to the image fetch.
FetchStarted(t) == CopiesIn(t, pendingCover') > CopiesIn(t, pendingCover)

LookedUp(t) ==
    \/ resp'.op = "cover" /\ resp'.token = t /\ resp'.status \in {404, 410}
    \/ FetchStarted(t)

\* C4: a token is never redeemed twice: of the cover requests that carry one
\* token, at most one reads the locator and performs the image fetch, so no two
\* of them are ever at the image fetch together.
C4_OneFetchPerToken == \A t \in DOMAIN pendingCover : CopiesIn(t, pendingCover) <= 1

\* C5: once a cover request that found its token present and unexpired has
\* finished, with the image (200) or with a failed fetch (502), the token is
\* absent from the vault.
C5_TokenGoneAfterCover ==
    (resp.op = "cover" /\ resp.status \in {200, 502}) => resp.token \notin DOMAIN coverTokens

\* C6: whenever the stored resetDate differs from the current UTC date, the
\* next access to the ledger (a status request, the checks of a generate
\* request, or the increment after its upstream call) first resets it: the
\* access leaves resetDate at today and a globalCount counted from 0.
C6_EveryAccessResetsFirst ==
    [][(store.resetDate # todayUTC /\ (StatusSent \/ GenerateChecked \/ GenerateSuccess)) =>
          /\ store'.resetDate = todayUTC
          /\ store'.globalCount = (IF GenerateSuccess THEN 1 ELSE 0)]_vars

\* C7 as stated: the first redeem of a token, made after its ttl has elapsed,
\* answers expired (410) and leaves the entry gone, whatever ran between the
\* issue and that redeem (sweep runs included).
C7_FirstLateRedeemAnswers410 ==
    [][\A t \in DOMAIN issued :
          (LookedUp(t) /\ t \notin tried /\ now > issued[t]) =>
              /\ resp'.op = "cover" /\ resp'.status = 410
              /\ t \notin DOMAIN coverTokens']_vars

\* C7 as amended: a redeem made after the ttl has elapsed never goes on to the
\* image fetch: it answers expired (410) when the entry is still in the vault
\* and notFound (404) when a sweep or an earlier redeem has removed it; after
\* it the entry is gone, an entry that is gone never comes back, and a redeem
\* of a token that is gone answers notFound (404).
C7_LateRedeemAnswers410Or404 ==
    [][\A t \in DOMAIN issued :
          /\ (LookedUp(t) /\ now > issued[t]) =>
                /\ resp'.op = "cover" /\ resp'.token = t
                /\ resp'.status = (IF t \in DOMAIN coverTokens THEN 410 ELSE 404)
                /\ ~FetchStarted(t)
                /\ t \notin DOMAIN coverTokens'
          /\ (LookedUp(t) /\ t \notin DOMAIN coverTokens) =>
                resp'.op = "cover" /\ resp'.status = 404
          /\ t \notin DOMAIN coverTokens => t \notin DOMAIN coverTokens']_vars

\* C7 witness: a redeem after the ttl was answered 410 and the entry is gone.
C7_Witness ==
    /\ resp.op = "cover" /\ resp.status = 410
    /\ resp.token \in DOMAIN issued /\ now > issued[resp.token]
    /\ resp.token \notin DOMAIN coverTokens

\* C8 as stated: a token is valid iff present and now < expiresAt: a redeem at
\* an instant now >= expiresAt (now = expiresAt included) deletes the entry,
\* answers expired and does not start the image fetch.
C8_ExpiredFromExpiresAt ==
    [][\A t \in DOMAIN coverTokens :
          (LookedUp(t) /\ now >= coverTokens[t].expiresAt) =>
              /\ resp'.op = "cover" /\ resp'.status = 410
              /\ t \notin DOMAIN coverTokens'
              /\ ~FetchStarted(t)]_vars

\* C8 as amended: a token is valid iff present and now <= expiresAt: a redeem
\* at an instant now > expiresAt deletes the entry, answers expired and does
\* not start the image fetch; a redeem at now <= expiresAt (now = expiresAt
\* included) starts the image fetch and leaves the vault as it is; a redeem of
\* an absent token starts no fetch.
C8_ExpiredAfterExpiresAt ==
    [][\A t \in Presentable :
          LookedUp(t) =>
              IF t \notin DOMAIN coverTokens
              THEN ~FetchStarted(t) /\ coverTokens' = coverTokens
              ELSE IF now > coverTokens[t].expiresAt
              THEN /\ resp'.op = "cover" /\ resp'.status = 410
                   /\ t \notin DOMAIN coverTokens'
                   /\ ~FetchStarted(t)
              ELSE /\ FetchStarted(t)
                   /\ resp' = NoResp
                   /\ coverTokens' = coverTokens]_vars

\* C8 witness: a redeem at the first instant after expiresAt was answered 410.
C8_Witness ==
    /\ resp.op = "cover" /\ resp.status = 410
    /\ resp.token \in DOMAIN issued /\ now = issued[resp.token] + 1

\* C9: a generate request reaches the upstream call only in the step in which
\* its limit checks and its input validation passed (and the key is set), and
\* a request denied by a limit or failing validation starts no upstream call.
C9_ChecksBeforeUpstream ==
    [][/\ UpstreamStarted =>
            \E req \in DOMAIN pendingGen' :
                /\ CopiesIn(req, pendingGen') = CopiesIn(req, pendingGen) + 1
                /\ liveGlobal < DAILY_GLOBAL_LIMIT
                /\ liveCount(req.ip) < DAILY_USER_LIMIT
                /\ req.vibe \in 1..VibeMax
                /\ apiKey # NoKey
                /\ resp' = NoResp
       /\ (resp'.op = "generate" /\ resp'.status \in {429, 400}) =>
            pendingGen' = pendingGen]_vars

\* C9 witness: a request of a client with one generation today is at the
\* upstream call.
C9_Witness ==
    /\ resp = NoResp
    /\ \E req \in DOMAIN pendingGen : liveCount(req.ip) = 1

\* C10 as stated: a generate request whose trimmed input is longer than 600
\* characters is answered with the validation error (400) and leaves every
\* counter unchanged, in every ledger state.
C10_TooLongAnswers400 ==
    [][(resp'.op = "generate" /\ resp'.len > VibeMax) =>
          resp'.status = 400 /\ QuotaUnchanged]_vars

\* C10 as amended: a generate request whose trimmed input is longer than 600
\* characters never reaches the upstream call and leaves every counter
\* unchanged, in every ledger state; it is answered with the validation error
\* (400) when neither limit is reached, and with the limit error (429,
\* global_limit before user_limit) when the global count or the caller's own
\* count has reached its limit.
C10_TooLongRejected ==
    [][/\ (resp'.op = "generate" /\ resp'.len > VibeMax) =>
            /\ resp'.status =
                   (IF liveGlobal >= DAILY_GLOBAL_LIMIT
                       \/ liveCount(resp'.ip) >= DAILY_USER_LIMIT
                    THEN 429 ELSE 400)
            /\ resp'.type =
                   (IF liveGlobal >= DAILY_GLOBAL_LIMIT THEN "global_limit"
                    ELSE IF liveCount(resp'.ip) >= DAILY_USER_LIMIT THEN "user_limit"
                    ELSE "none")
            /\ QuotaUnchanged
            /\ pendingGen' = pendingGen
       /\ \A req \in DOMAIN pendingGen' : req.vibe <= VibeMax]_vars

\* C10 witness: a 601-character input was answered 429 at the caller's limit.
C10_Witness ==
    /\ resp.op = "generate" /\ resp.len = VibeMax + 1 /\ resp.status = 429
    /\ liveCount(resp.ip) = DAILY_USER_LIMIT

\* C11: whenever globalCount has reached DAILY_GLOBAL_LIMIT, the checks of a
\* generate request of any client deny it with status 429 and type
\* global_limit, whatever the client's own count (0 or at its limit), and the
\* request reaches no upstream call and changes no count.
C11_GlobalLimitCheckedFirst ==
    [][(GenerateChecked /\ liveGlobal >= DAILY_GLOBAL_LIMIT) =>
          /\ resp'.op = "generate" /\ resp'.status = 429
          /\ resp'.type = "global_limit"
          /\ pendingGen' = pendingGen
          /\ QuotaUnchanged]_vars

\* C11 witness: with eleven generations of other clients today, a client with
\* no generation of its own was denied with global_limit.
C11_Witness ==
    /\ resp.op = "generate" /\ resp.type = "global_limit"
    /\ liveGlobal = DAILY_GLOBAL_LIMIT
    /\ liveCount(resp.ip) = 0
    /\ pendingGen = EmptyBag

\* The generations client ip has committed on the current UTC day: its
\* generate requests that ran the increment at an instant of today.
commitsToday(ip) == CopiesIn(<<ip, todayUTC>>, committed)

\* A generate request of client ip ran its checks.
CheckedBy(ip) ==
    \/ resp'.op = "generate" /\ ~UpstreamReturned /\ resp'.ip = ip
    \/ \E req \in DOMAIN pendingGen' :
          req.ip = ip /\ CopiesIn(req, pendingGen') > CopiesIn(req, pendingGen)

\* C12: once a client has DAILY_USER_LIMIT (2) committed generations on the
\* current UTC day, every further generate request of that client on that day
\* is denied with status 429 and type user_limit whenever globalCount is below
\* DAILY_GLOBAL_LIMIT, and reaches no upstream call.
C12_UserLimitDenies ==
    [][\A ip \in Clients :
          (CheckedBy(ip) /\ commitsToday(ip) >= DAILY_USER_LIMIT
                         /\ liveGlobal < DAILY_GLOBAL_LIMIT) =>
              /\ resp'.op = "generate" /\ resp'.status = 429
              /\ resp'.type = "user_limit"
              /\ pendingGen' = pendingGen]_vars

\* What a status request would report as globalRemaining and userRemaining to
\* client ip right after the generate request req, now waiting on the upstream
\* call, has completed with success, when the ledger is L.
statusAfterCommit(L, req, ip) ==
    LET L1 == resetIfNewDay(incrementCounters(L, req.rec))
        ur == userRecord(L1, ip)
    IN  [global |-> Max0(DAILY_GLOBAL_LIMIT - ur.ledger.store.globalCount),
         user |-> Max0(DAILY_USER_LIMIT - ur.ledger.records[ur.rec].count)]

\* C13: a status request leaves the global count, the count of every client
\* and the token vault unchanged, starts and ends no other request, and does
\* not change what later requests are answered: what a status request reports
\* after the completion of a generate request that is waiting on the upstream
\* call is the same whether or not this status request was made.
C13_StatusHasNoEffect ==
    [][StatusSent =>
          /\ QuotaUnchanged
          /\ coverTokens' = coverTokens
          /\ pendingGen' = pendingGen /\ pendingCover' = pendingCover
          /\ \A req \in DOMAIN pendingGen, ip \in Clients :
                statusAfterCommit(Ledger', req, ip) = statusAfterCommit(Ledger, req, ip)]_vars

\* The cause of the failure of the generate request the step answers, by the
\* spec's names: the upstream call or its payload failed, or the first check
\* of the handler that did not pass.
failureKind ==
    IF UpstreamReturned THEN "upstream_error"
    ELSE IF liveGlobal >= DAILY_GLOBAL_LIMIT THEN "global_limit"
    ELSE IF liveCount(resp'.ip) >= DAILY_USER_LIMIT THEN "user_limit"
    ELSE IF resp'.len \notin 1..VibeMax THEN "validation"
    ELSE "server_misconfigured"

statusOfKind(kind) ==
    IF kind \in {"global_limit", "user_limit"} THEN 429
    ELSE IF kind = "validation" THEN 400
    ELSE 500

\* C14 as stated: every failed generate request is answered with an error
\* whose kind names the cause of the failure (global_limit, user_limit,
\* validation, upstream_error, server_misconfigured) and whose status is 429
\* for both limit kinds, 400 for validation and 500 for every other failure.
C14_ErrorsCarryTheirKind ==
    [][GenerateError =>
          /\ resp'.type = failureKind
          /\ resp'.status = statusOfKind(failureKind)]_vars

\* C14 as amended: every failed generate request is answered with status 429
\* for both limit causes, 400 for validation and 500 for every other failure;
\* the body carries a type only for the limit causes (global_limit,
\* user_limit) and none for validation, a missing key or an upstream failure.
C14_OnlyLimitErrorsCarryAKind ==
    [][GenerateError =>
          /\ resp'.status = statusOfKind(failureKind)
          /\ resp'.type = (IF failureKind \in {"global_limit", "user_limit"}
                           THEN failureKind ELSE "none")
          /\ (failureKind = "server_misconfigured") = (apiKey = NoKey /\ ~UpstreamReturned
                  /\ resp'.status = 500)]_vars

\* C14 witness: a request was denied with user_limit while the global count
\* was below its limit.
C14_Witness ==
    /\ resp.op = "generate" /\ resp.status = 429 /\ resp.type = "user_limit"
    /\ liveGlobal < DAILY_GLOBAL_LIMIT
    /\ liveCount(resp.ip) >= DAILY_USER_LIMIT

IsFirstEntryOf(e, s) ==
    /\ Len(e) <= Len(s)
    /\ e = SubSeq(s, 1, Len(e))
    /\ \A i \in 1..Len(e) : e[i] # ","
    /\ Len(e) = Len(s) \/ s[Len(e) + 1] = ","

\* t is e without its leading and trailing white space.
IsTrimOf(t, e) ==
    \E i, j \in 0..Len(e) :
        /\ i + j <= Len(e)
        /\ t = SubSeq(e, i + 1, Len(e) - j)
        /\ \A k \in 1..i : e[k] = " "
        /\ \A k \in (Len(e) - j + 1)..Len(e) : e[k] = " "
        /\ t = << >> \/ (t[1] # " " /\ t[Len(t)] # " ")

\* id is the trimmed first entry of the header value s.
IsTrimmedFirstEntry(id, s) ==
    \E n \in 0..Len(s) :
        IsFirstEntryOf(SubSeq(s, 1, n), s) /\ IsTrimOf(id, SubSeq(s, 1, n))

\* The transport-level peer address of the request, when one is available.
peerAddress(req) ==
    IF req.ip.present /\ req.ip.value # << >> THEN req.ip
    ELSE IF req.socket.present /\ req.socket.remoteAddress.present
            /\ req.socket.remoteAddress.value # << >>
    THEN req.socket.remoteAddress
    ELSE Undefined

\* What every resolution satisfies: clientIp returned a string, and the status
\* request that follows is answered for the record the store keeps under that
\* string, so that requests with one identifier share one counter.
ResolvedAndShared ==
    /\ resolved.ip \in StringsUpTo(MaxHeaderLen) \cup {<<"p">>, <<"q">>, unknown}
    /\ resp.op = "status" =>
          /\ resp.ip = resolved.ip
          /\ resolved.ip \in DOMAIN store.users
          /\ store.users[resolved.ip] = <<resolved.ip, todayUTC>>
          /\ store.users[resolved.ip] \in DOMAIN records

\* C16 as stated: resolution never fails; the identifier is the trimmed first
\* comma-separated entry of the forwarded-for header when the header is
\* present, otherwise the peer address when one is available, otherwise
\* "unknown"; requests with one identifier share one per-client counter.
C16_HeaderUsedWhenPresent ==
    resolved.done =>
        /\ ResolvedAndShared
        /\ IF request.forwarded.present
           THEN IsTrimmedFirstEntry(resolved.ip, request.forwarded.value)
           ELSE IF peerAddress(request).present
           THEN resolved.ip = peerAddress(request).value
           ELSE resolved.ip = unknown

\* C16 as amended: the same, with the header used only when it is present and
\* not empty; a request whose header is present but empty is resolved by its
\* peer address, or "unknown", like a request without the header.
C16_HeaderUsedWhenNotEmpty ==
    resolved.done =>
        /\ ResolvedAndShared
        /\ IF request.forwarded.present /\ request.forwarded.value # << >>
           THEN IsTrimmedFirstEntry(resolved.ip, request.forwarded.value)
           ELSE IF peerAddress(request).present
           THEN resolved.ip = peerAddress(request).value
           ELSE resolved.ip = unknown

\* C16 witness: a request with an empty forwarded-for header was resolved to
\* its peer address, req.ip, and answered.
C16_Witness ==
    /\ resolved.done /\ resp.op = "status"
    /\ request.forwarded = Str(<< >>)
    /\ resolved.ip = <<"p">>
    /\ request.ip = Str(<<"p">>)

\* The sweep ran: no request was received or resumed and the clock stood.
SweepRan ==
    /\ resp' = NoResp
    /\ UNCHANGED <<now, store, records, nextToken, pendingGen, pendingCover, tried,
                   request, resolved>>

\* C17 as stated: a sweep at instant now deletes exactly the entries with
\* expiresAt <= now, the one with expiresAt = now included, and leaves every
\* entry with expiresAt > now present with the same locator and expiry.
C17_SweepDeletesFromExpiresAt ==
    [][SweepRan =>
          /\ DOMAIN coverTokens' \subseteq DOMAIN coverTokens
          /\ \A t \in DOMAIN coverTokens :
                IF coverTokens[t].expiresAt <= now
                THEN t \notin DOMAIN coverTokens'
                ELSE t \in DOMAIN coverTokens' /\ coverTokens'[t] = coverTokens[t]]_vars

\* C17 as amended: a sweep at instant now deletes exactly the entries with
\* expiresAt < now, and leaves every entry with expiresAt >= now, the one with
\* expiresAt = now included, present with the same locator and expiry.
C17_SweepDeletesAfterExpiresAt ==
    [][SweepRan =>
          /\ DOMAIN coverTokens' \subseteq DOMAIN coverTokens
          /\ \A t \in DOMAIN coverTokens :
                IF coverTokens[t].expiresAt < now
                THEN t \notin DOMAIN coverTokens'
                ELSE t \in DOMAIN coverTokens' /\ coverTokens'[t] = coverTokens[t]]_vars

\* C17 witness: a token no cover request ever looked up is gone after its
\* expiry: a sweep deleted it.
C17_Witness ==
    \E t \in DOMAIN issued :
        /\ t \notin tried
        /\ t \notin DOMAIN coverTokens
        /\ now > issued[t]

\* The outcome of the cover request that looks token t up in this step:
\* 0 when it goes on to the image fetch (the locator is used), else the status
\* it answers with, 404 (notFound) or 410 (expired).
lookupOutcome(t) == IF FetchStarted(t) THEN 0 ELSE resp'.status

\* C18 as stated: the outcome of every cover request (locator used, notFound
\* or expired) is the same in the run, where the sweep fires at arbitrary
\* instants, as in the run with the same requests where it never fires.
C18_SweepNeverChangesOutcome ==
    [][\A t \in Presentable :
          LookedUp(t) => lookupOutcome(t) = lookupStatus(unswept, t)]_vars

\* C18 as amended: the sweep never changes whether a cover request gets to
\* the image: a request that goes on to the fetch, or answers notFound, in
\* the run without sweeps does the same in the run with sweeps; a request that
\* answers expired (410) without sweeps answers expired when the entry is
\* still in the vault and notFound (404) when a sweep has removed it; and the
\* sweep only ever removes entries the run without sweeps holds expired.
C18_SweepChangesOnly410To404 ==
    [][/\ \A t \in Presentable :
            LookedUp(t) =>
                IF lookupStatus(unswept, t) = 410
                THEN lookupOutcome(t) = (IF t \in DOMAIN coverTokens THEN 410 ELSE 404)
                ELSE lookupOutcome(t) = lookupStatus(unswept, t)
       /\ \A t \in DOMAIN unswept' :
            IF t \in DOMAIN coverTokens'
            THEN coverTokens'[t] = unswept'[t]
            ELSE now' > unswept'[t].expiresAt
       /\ DOMAIN coverTokens' \subseteq DOMAIN unswept']_vars

\* C18 witness: a sweep has removed an entry that the run without sweeps
\* still holds, and a cover request had looked the token up before.
C18_Witness ==
    \E t \in DOMAIN unswept :
        /\ t \notin DOMAIN coverTokens
        /\ t \in tried

\* This step removes the entry of token t from the vault.
Removed(t) == t \in DOMAIN coverTokens /\ t \notin DOMAIN coverTokens'

\* A cover request for token t ran in this step, to its lookup or from the
\* return of its image fetch.
Redeeming(t) ==
    \/ LookedUp(t)
    \/ CopiesIn(t, pendingCover') < CopiesIn(t, pendingCover)

FetchReturned(t) == CopiesIn(t, pendingCover') < CopiesIn(t, pendingCover)

\* C20: the sweep and the cover requests may delete the same entry in either
\* order.  A cover request that resumes from its image fetch sends exactly one
\* response, 200 or 502, also when a sweep has deleted its entry meanwhile;
\* its delete of an entry that is gone changes nothing, and it touches no
\* other entry.  A sweep leaves the suspended requests as they are, removes
\* only expired entries and puts back none.
C20_SweepAndRedeemMayRace ==
    [][/\ \A t \in DOMAIN pendingCover :
            FetchReturned(t) =>
                /\ pendingCover' = pendingCover (-) SetToBag({t})
                /\ resp'.op = "cover" /\ resp'.token = t /\ resp'.status \in {200, 502}
                /\ t \notin DOMAIN coverTokens => coverTokens' = coverTokens
                /\ DOMAIN coverTokens' \subseteq DOMAIN coverTokens
                /\ \A u \in DOMAIN coverTokens \ {t} :
                      u \in DOMAIN coverTokens' /\ coverTokens'[u] = coverTokens[u]
       /\ SweepRan =>
            /\ DOMAIN coverTokens' \subseteq DOMAIN coverTokens
            /\ \A u \in DOMAIN coverTokens' : coverTokens'[u] = coverTokens[u]]_vars

\* C20 witness: a sweep has deleted the entry of a token while a cover request
\* for it is suspended at the image fetch.
C20_Witness ==
    \E t \in DOMAIN pendingCover :
        /\ t \notin DOMAIN coverTokens
        /\ t \in DOMAIN unswept
        /\ now > unswept[t].expiresAt

\* A token was issued, or a counter was charged, in this step.
TokenIssued == nextToken' # nextToken \/ ~(DOMAIN coverTokens' \subseteq DOMAIN coverTokens)

GlobalCharged == store'.globalCount > store.globalCount

RecordCharged == \E r \in DOMAIN records \cap DOMAIN records' : records'[r].count > records[r].count

\* The request that resumed from the upstream call in this step.
Resumed(req) == CopiesIn(req, pendingGen') < CopiesIn(req, pendingGen)

\* C21: a request is at the upstream call only with a validated input; a
\* token is issued and the counters are charged only in the step in which a
\* request resumes from the upstream call with an output that passed
\* validation, and then all of it happens in that one step: one fresh vault
\* entry, globalCount + 1, the request's record + 1, and the success response
\* carrying that token.  So between steps no state holds a token without its
\* charge or a charge without its token.
C21_CommitAndIssueInOneStep ==
    [][/\ \A req \in DOMAIN pendingGen' : req.vibe \in 1..VibeMax
       /\ (TokenIssued \/ GlobalCharged \/ RecordCharged) =>
            /\ UpstreamReturned /\ GenerateSuccess
            /\ nextToken' = nextToken + 1
            /\ DOMAIN coverTokens' = DOMAIN coverTokens \cup {nextToken}
            /\ nextToken \notin DOMAIN coverTokens
            /\ resp'.token = nextToken
            /\ store'.globalCount = store.globalCount + 1
            /\ \E req \in DOMAIN pendingGen :
                  /\ Resumed(req) /\ req.ip = resp'.ip
                  /\ req.rec \in DOMAIN records' =>
                        records'[req.rec].count = records[req.rec].count + 1
                  /\ \A r \in (DOMAIN records \cap DOMAIN records') \ {req.rec} :
                        records'[r] = records[r]
       /\ GenerateSuccess => (TokenIssued /\ GlobalCharged)]_vars

\* C21 witness: a generation has just been committed and its token issued
\* while another request waits at the upstream call.
C21_Witness ==
    /\ resp.op = "generate" /\ resp.status = 200
    /\ resp.token \in DOMAIN coverTokens
    /\ store.globalCount = 1
    /\ pendingGen # EmptyBag

\* C22: the remaining counts of a successful generate response are the
\* post-commit counts of the current ledger: the status request of the same
\* client that comes right after the response reports the same userRemaining
\* and globalRemaining, also when the date changed or other requests ran
\* while the generate request was at the upstream call.
C22_RemainingIsPostCommit ==
    [][(/\ resp.op = "generate" /\ resp.status = 200
        /\ StatusSent /\ resp'.ip = resp.ip) =>
          /\ resp'.user = resp.user
          /\ resp'.global = resp.global]_vars

\* The sum of the counts of the clients in `ips`, each read from the record
\* the per-client map holds for it.
RECURSIVE SumOfCounts(_)
SumOfCounts(ips) ==
    IF ips = {} THEN 0
    ELSE LET ip == CHOOSE i \in ips : TRUE
         IN  records[store.users[ip]].count + SumOfCounts(ips \ {ip})

\* The clients whose entry in the per-client map carries the reset date.
ChargedToday == {ip \in DOMAIN store.users : records[store.users[ip]].date = store.resetDate}

\* C23: in every reachable state globalCount is the sum of the counts of the
\* entries of the per-client map that carry the current reset date, also
\* after a commit whose request was at the upstream call while another
\* request triggered the reset.
C23_GlobalCountIsSumOfCounts == store.globalCount = SumOfCounts(ChargedToday)

\* The response just sent reports remaining counts: a status response or a
\* successful generate response.
ReportsRemaining == resp.op = "status" \/ (resp.op = "generate" /\ resp.status = 200)

\* C24: every remaining count reported, by status or by a successful
\* generate, lies within 0..DAILY_USER_LIMIT and 0..DAILY_GLOBAL_LIMIT, and
\* after a report of 0 for either one the generate request the same client
\* makes next, at the same instant, is denied with a limit error and reaches
\* no upstream call.
C24_RemainingInRangeAndZeroDenies ==
    [][/\ ReportsRemaining' =>
            /\ resp'.user \in 0..DAILY_USER_LIMIT
            /\ resp'.global \in 0..DAILY_GLOBAL_LIMIT
       /\ (/\ ReportsRemaining
           /\ resp.user = 0 \/ resp.global = 0
           /\ CheckedBy(resp.ip)) =>
              /\ resp'.op = "generate" /\ resp'.status = 429
              /\ resp'.type \in {"global_limit", "user_limit"}
              /\ pendingGen' = pendingGen]_vars

====
